---- MODULE Spec2Model ----
(***************************************************************************)
(* The evaluation conversation of frontend/src/App.jsx: the React state of *)
(* the App component, its event handlers (handleEvaluate, handleChatSend,  *)
(* handleApplyFix, the inline onChange/onClick handlers), the network call *)
(* made by callApi and the render helper getPreviewCode.                   *)
(*                                                                         *)
(* JavaScript values are tagged records: a string is JStr(s), a number     *)
(* JNum(n), null is JNull, undefined is Undefined, and a JSON object is    *)
(* Obj(p) where p is a record holding exactly the keys that are present.   *)
(* Strings are TLA+ strings (sequences of characters).  The backtick can   *)
(* not be written inside a TLA+ string literal, so the character U+0060 is *)
(* written "^" throughout (see Backtick).                                  *)
(***************************************************************************)
EXTENDS Integers, Sequences, FiniteSets, TLC

VARIABLES
    activeTab,        \* useState('logs')
    htmlInput,        \* useState(default card markup): the editor document
    chatHistory,      \* useState([]): sequence of [role, content]
    latestAnalysis,   \* useState(null)
    loading,          \* useState(false): the busy flag
    chatInput,        \* useState("")
    showJson,         \* useState(false)
    pending,          \* requests handed to fetch and not yet settled
    lastCall,         \* the handler entered by the last step, and how it left
    answer            \* the evaluator's answer consumed by the last step

vars == <<activeTab, htmlInput, chatHistory, latestAnalysis, loading,
          chatInput, showJson, pending, lastCall, answer>>

-----------------------------------------------------------------------------
(* Bounds *)

\* A follow-up chat is only explored while the history holds fewer user
\* turns than this.
MaxUserTurns == 2

-----------------------------------------------------------------------------
(* JavaScript values *)

Undefined == [type |-> "undefined"]

JNull == [type |-> "null"]

JNum(n) == [type |-> "number", num |-> n]

JStr(s) == [type |-> "string", str |-> s]

Obj(p) == [type |-> "object", props |-> p]

\* o.k : property access on a non-nullish value (undefined when absent)
Get(o, k) ==
    IF o.type = "object" /\ k \in DOMAIN o.props THEN o.props[k] ELSE Undefined

\* ToBoolean
Truthy(v) ==
    CASE v.type = "undefined" -> FALSE
      [] v.type = "null"      -> FALSE
      [] v.type = "string"    -> v.str # ""
      [] v.type = "number"    -> v.num # 0
      [] OTHER                -> TRUE

IsNullish(v) == v.type \in {"undefined", "null"}

-----------------------------------------------------------------------------
(* Strings *)

\* U+0060, which a TLA+ string literal cannot hold
Backtick == "^"

Fence == Backtick \o Backtick \o Backtick

CharAt(s, i) == SubSeq(s, i, i)

IsWhiteSpace(c) == c \in {" ", "\n", "\t", "\r"}

RECURSIVE TrimStart(_)
TrimStart(s) ==
    IF Len(s) > 0 /\ IsWhiteSpace(CharAt(s, 1))
    THEN TrimStart(SubSeq(s, 2, Len(s)))
    ELSE s

RECURSIVE TrimEnd(_)
TrimEnd(s) ==
    IF Len(s) > 0 /\ IsWhiteSpace(CharAt(s, Len(s)))
    THEN TrimEnd(SubSeq(s, 1, Len(s) - 1))
    ELSE s

\* String.prototype.trim
Trim(s) == TrimEnd(TrimStart(s))

\* first index >= from at which pat occurs in s, 0 when there is none
IndexOf(s, pat, from) ==
    LET hits == {i \in from..(Len(s) - Len(pat) + 1) :
                    SubSeq(s, i, i + Len(pat) - 1) = pat}
    IN  IF hits = {} THEN 0
        ELSE CHOOSE i \in hits : \A j \in hits : i <= j

Includes(s, pat) == IndexOf(s, pat, 1) # 0

-----------------------------------------------------------------------------
(* Render helpers *)

\* ToNumber as the comparison score >= n applies it: a number is itself,
\* null is 0, undefined is NaN (no score of the evaluator is a string)
ToNumber(v) ==
    CASE v.type = "number" -> [nan |-> FALSE, num |-> v.num]
      [] v.type = "null"   -> [nan |-> FALSE, num |-> 0]
      [] OTHER             -> [nan |-> TRUE, num |-> 0]

\* score >= n, false on NaN
AtLeast(score, n) == ~ToNumber(score).nan /\ ToNumber(score).num >= n

\* the tiers with the lower threshold at 60
getScoreColor_60(score) ==
    IF AtLeast(score, 80) THEN "text-high"
    ELSE IF AtLeast(score, 60) THEN "text-mid"
    ELSE "text-low"

\* if (score >= 80) return 'text-high'; if (score >= 70) return 'text-mid';
\* return 'text-low';
getScoreColor(score) ==
    IF AtLeast(score, 80) THEN "text-high"
    ELSE IF AtLeast(score, 70) THEN "text-mid"
    ELSE "text-low"

\* the pattern with a greedy group, running up to the last fence
HtmlFenceMatch_greedy(s) ==
    LET opener == Fence \o "html"
        open   == IndexOf(s, opener, 1)
        closes == IF open = 0 THEN {}
                  ELSE {i \in (open + Len(opener))..(Len(s) - Len(Fence) + 1) :
                           SubSeq(s, i, i + Len(Fence) - 1) = Fence}
    IN  IF closes = {}
        THEN [matched |-> FALSE, group |-> ""]
        ELSE [matched |-> TRUE,
              group   |-> SubSeq(s, open + Len(opener),
                                 (CHOOSE i \in closes :
                                     \A j \in closes : j <= i) - 1)]

\* rationale.match(/```html([\s\S]*?)```/): the leftmost opening fence
\* tagged html, then the shortest text up to the next fence.  group is
\* match[1].
HtmlFenceMatch(s) ==
    LET opener == Fence \o "html"
        open   == IndexOf(s, opener, 1)
        close  == IF open = 0 THEN 0
                  ELSE IndexOf(s, Fence, open + Len(opener))
    IN  IF open = 0 \/ close = 0
        THEN [matched |-> FALSE, group |-> ""]
        ELSE [matched |-> TRUE,
              group   |-> SubSeq(s, open + Len(opener), close - 1)]

\* the loop run from the oldest turn upwards
FixedHtmlScan_oldest(history, i) ==
    LET hits == {j \in 1..i : /\ history[j].role = "assistant"
                              /\ Truthy(history[j].content)
                              /\ Truthy(Get(history[j].content, "fixed_html"))}
    IN  IF hits = {} THEN Undefined
        ELSE Get(history[CHOOSE j \in hits : \A k \in hits : j <= k].content,
                 "fixed_html")

\* first loop of getPreviewCode, from index i down to the oldest turn:
\* the fixed_html of the first assistant turn met whose fixed_html is truthy
RECURSIVE FixedHtmlScan(_, _)
FixedHtmlScan(history, i) ==
    IF i < 1 THEN Undefined
    ELSE LET msg == history[i]
         IN  IF /\ msg.role = "assistant"
                /\ Truthy(msg.content)
                /\ Truthy(Get(msg.content, "fixed_html"))
             THEN Get(msg.content, "fixed_html")
             ELSE FixedHtmlScan(history, i - 1)

\* second loop of getPreviewCode: match[1] of the first assistant turn met
\* whose rationale is truthy and matches the fence pattern
RECURSIVE RationaleScan(_, _)
RationaleScan(history, i) ==
    IF i < 1 THEN Undefined
    ELSE LET msg   == history[i]
             match == HtmlFenceMatch(Get(msg.content, "rationale").str)
         IN  IF /\ msg.role = "assistant"
                /\ Truthy(msg.content)
                /\ Truthy(Get(msg.content, "rationale"))
                /\ match.matched
             THEN JStr(match.group)
             ELSE RationaleScan(history, i - 1)

\* the extraction looking at the last assistant turn only
PreviewCode_lastTurn(history, editor) ==
    LET A == {i \in 1..Len(history) : history[i].role = "assistant"}
        c == history[CHOOSE i \in A : \A j \in A : j <= i].content
    IN  IF A = {} \/ ~Truthy(c) THEN editor
        ELSE IF Truthy(Get(c, "fixed_html")) THEN Get(c, "fixed_html").str
        ELSE IF /\ Truthy(Get(c, "rationale"))
                /\ HtmlFenceMatch(Get(c, "rationale").str).matched
        THEN HtmlFenceMatch(Get(c, "rationale").str).group
        ELSE editor

\* the extraction run on the preview tab only, the editor shown elsewhere
PreviewCode_onTab(history, editor) ==
    LET fixed  == FixedHtmlScan(history, Len(history))
        fenced == RationaleScan(history, Len(history))
    IN  IF activeTab # "preview" THEN editor
        ELSE IF fixed # Undefined THEN fixed.str
        ELSE IF fenced # Undefined THEN fenced.str
        ELSE editor

\* the default taken from the submitted turn instead of the editor
PreviewCode_submitted(history, editor) ==
    LET fixed  == FixedHtmlScan(history, Len(history))
        fenced == RationaleScan(history, Len(history))
    IN  IF fixed # Undefined THEN fixed.str
        ELSE IF fenced # Undefined THEN fenced.str
        ELSE IF Len(history) > 0 /\ history[1].content.type = "string"
        THEN history[1].content.str
        ELSE editor

\* getPreviewCode() evaluated on a history and an editor document
PreviewCode(history, editor) ==
    LET fixed  == FixedHtmlScan(history, Len(history))
        fenced == RationaleScan(history, Len(history))
    IN  IF fixed # Undefined THEN fixed.str
        ELSE IF fenced # Undefined THEN fenced.str
        ELSE editor

getPreviewCode == PreviewCode(chatHistory, htmlInput)

-----------------------------------------------------------------------------
(* callApi: the request *)

RECURSIVE EscapeJson(_)
EscapeJson(s) ==
    IF s = "" THEN ""
    ELSE LET c == CharAt(s, 1)
             e == CASE c = "\"" -> "\\\""
                    [] c = "\\" -> "\\\\"
                    [] c = "\n" -> "\\n"
                    [] c = "\t" -> "\\t"
                    [] c = "\r" -> "\\r"
                    [] OTHER    -> c
         IN  e \o EscapeJson(SubSeq(s, 2, Len(s)))

\* the keys an evaluator body may carry, in the order it writes them
KeyOrder ==
    <<"score_fidelity", "score_syntax", "score_accessibility",
      "score_responsiveness", "score_visual", "rationale",
      "final_judgement", "fixed_html", "detail", "error">>

StringifyScalar(v) ==
    CASE v.type = "string" -> "\"" \o EscapeJson(v.str) \o "\""
      [] v.type = "number" -> ToString(v.num)
      [] OTHER             -> "null"

RECURSIVE StringifyProps(_, _, _)
StringifyProps(p, i, first) ==
    IF i > Len(KeyOrder) THEN ""
    ELSE LET k == KeyOrder[i]
         IN  IF k \in DOMAIN p /\ p[k].type # "undefined"
             THEN (IF first THEN "" ELSE ",")
                  \o "\"" \o k \o "\":" \o StringifyScalar(p[k])
                  \o StringifyProps(p, i + 1, FALSE)
             ELSE StringifyProps(p, i + 1, first)

\* JSON.stringify of a turn's content
JSONStringify(v) ==
    IF v.type = "object"
    THEN "{" \o StringifyProps(v.props, 1, TRUE) \o "}"
    ELSE StringifyScalar(v)

\* structured content converted by String() instead of JSON.stringify
apiMessages_raw(messages) ==
    [i \in 1..Len(messages) |->
        [role    |-> messages[i].role,
         content |-> IF messages[i].content.type = "string"
                     THEN messages[i].content.str
                     ELSE IF messages[i].content.type = "object"
                     THEN "[object Object]"
                     ELSE "null"]]

\* messages.map(m => ({role, content: string or JSON.stringify(content)}))
apiMessages(messages) ==
    [i \in 1..Len(messages) |->
        [role    |-> messages[i].role,
         content |-> IF messages[i].content.type = "string"
                     THEN messages[i].content.str
                     ELSE JSONStringify(messages[i].content)]]

-----------------------------------------------------------------------------
(* The evaluator's answers *)

\* An answer is either a rejected fetch or a response with a status class
\* (ok) and a body; a body either parses as JSON (to value) or does not.
Rejected == [settled |-> "rejected"]

JsonResponse(ok, value) ==
    [settled |-> "response", ok |-> ok, json |-> TRUE, value |-> value]

TextResponse(ok, text) ==
    [settled |-> "response", ok |-> ok, json |-> FALSE, text |-> text]

ResultPass ==
    Obj([score_fidelity |-> JNum(90), score_syntax |-> JNum(85),
         score_accessibility |-> JNum(70), rationale |-> JStr("ok"),
         final_judgement |-> JStr("pass"), fixed_html |-> JNull])

ResultFixA ==
    Obj([score_fidelity |-> JNum(79), score_syntax |-> JNum(80),
         score_accessibility |-> JNum(69), rationale |-> JStr("fixed"),
         final_judgement |-> JStr("fail"), fixed_html |-> JStr("<a>")])

\* a body with the two optional scores, one of them 0, the other a
\* number the evaluator should not have given
ResultFixB ==
    Obj([score_fidelity |-> JNum(100), score_syntax |-> JNum(0),
         score_accessibility |-> JNum(70),
         score_responsiveness |-> JNum(0), score_visual |-> JNum(120),
         rationale |-> JStr("fixed"),
         final_judgement |-> JStr("pass"), fixed_html |-> JStr("<b>")])

FencedRationale == Fence \o "html\n<p>hi</p>\n" \o Fence

ResultFenced ==
    Obj([score_fidelity |-> JNum(60), score_syntax |-> JNum(85),
         score_accessibility |-> JNum(70),
         rationale |-> JStr(FencedRationale),
         final_judgement |-> JStr("pass")])

\* a rationale of four fenced blocks: one tagged css, one without a tag,
\* two tagged html
BlocksRationale ==
    Fence \o "css\nb{}\n" \o Fence \o "\n"
    \o Fence \o "\nx\n" \o Fence \o "\n"
    \o Fence \o "html\n<p>hi</p>\n" \o Fence \o "\n"
    \o Fence \o "html\n<i>2</i>\n" \o Fence

\* a body with success status that lacks the scores
ResultNoScores == Obj([rationale |-> JStr(BlocksRationale)])

\* a result whose rationale is an html-fenced block with nothing in it
ResultEmptyBlock ==
    Obj([score_fidelity |-> JNum(90), score_syntax |-> JNum(85),
         score_accessibility |-> JNum(70),
         rationale |-> JStr(Fence \o "html" \o Fence),
         final_judgement |-> JStr("pass")])

SuccessBodies ==
    {ResultPass, ResultFixA, ResultFixB, ResultFenced, ResultNoScores,
     ResultEmptyBlock, JNull}

Responses ==
    {JsonResponse(TRUE, v) : v \in SuccessBodies}
    \cup {TextResponse(TRUE, ""),
          JsonResponse(FALSE, Obj([detail |-> JStr("rate limited")])),
          JsonResponse(FALSE, JNull),
          TextResponse(FALSE, "Bad Gateway"),
          TextResponse(FALSE, ""),
          Rejected}

-----------------------------------------------------------------------------
(* callApi: the answer *)

\* what an await leaves: a value, or a thrown Error with its message
Returned(v) == [threw |-> FALSE, value |-> v]

Thrown(m) == [threw |-> TRUE, message |-> m]

\* messages of the errors the runtime itself raises
FetchErrorMessage == "Failed to fetch"

JsonSyntaxMessage == "Unexpected end of JSON input"

NullReadMessage(k) ==
    "Cannot read properties of null (reading '" \o k \o "')"

\* String(v), as new Error(v) applies it to a truthy v
ToStr(v) ==
    CASE v.type = "string" -> v.str
      [] v.type = "number" -> ToString(v.num)
      [] OTHER             -> "[object Object]"

\* response.json()
ResponseJson(resp) ==
    IF resp.json THEN Returned(resp.value) ELSE Thrown(JsonSyntaxMessage)

\* the detail of the body ignored, the generic message always thrown
NotOkError_generic(resp) == Thrown("Request failed")

\* if (!response.ok) { err = await response.json().catch(() =>
\*   ({detail: 'Request failed'})); throw new Error(err.detail || ...) }
NotOkError(resp) ==
    LET parsed == ResponseJson(resp)
        err    == IF parsed.threw
                  THEN Obj([detail |-> JStr("Request failed")])
                  ELSE parsed.value
    IN  IF IsNullish(err) THEN Thrown(NullReadMessage("detail"))
        ELSE IF Truthy(Get(err, "detail"))
        THEN Thrown(ToStr(Get(err, "detail")))
        ELSE Thrown("Request failed")

\* the outcome of `await callApi(...)` once the evaluator has answered
callApi(resp) ==
    IF resp.settled = "rejected" THEN Thrown(FetchErrorMessage)
    ELSE IF ~resp.ok THEN NotOkError(resp)
    ELSE ResponseJson(resp)

-----------------------------------------------------------------------------
(* State *)

DefaultHtml ==
    "<div class=\"card\">\n  <h2>Hello World</h2>\n  <button>Click Me</button>\n</div>"

\* what the user may type into the editor textarea
Docs == {" \n", "<div>Hi</div>"}

\* what the user may type into the chat input
ChatTexts == {"", "  ", "Fix the contrast"}

Tabs == {"logs", "analysis", "chat", "preview"}

Turn(role, content) == [role |-> role, content |-> content]

\* no answer was consumed by the step
NoAnswer == [settled |-> "none"]

\* a step that enters the named handler and consumes no answer
Called(name) == lastCall' = name /\ answer' = NoAnswer

Init ==
    /\ activeTab = "logs"
    /\ htmlInput = DefaultHtml
    /\ chatHistory = <<>>
    /\ latestAnalysis = JNull
    /\ loading = FALSE
    /\ chatInput = ""
    /\ showJson = FALSE
    /\ pending = <<>>
    /\ lastCall = "-"
    /\ answer = NoAnswer

\* The chat tab reads msg.content.error of every non-user turn while
\* rendering; on a null content the read throws, React unmounts the tree
\* and no handler or continuation acts on the state any more.
RenderThrows ==
    /\ activeTab = "chat"
    /\ \E i \in 1..Len(chatHistory) :
          chatHistory[i].role # "user" /\ IsNullish(chatHistory[i].content)

Mounted == ~RenderThrows

\* The JSON overlay, rendered when showJson && latestAnalysis, is laid
\* over the whole results card (position absolute, inset 0, zIndex 50):
\* the tab buttons and the tab content under it receive no click or key.
OverlayShown == showJson /\ Truthy(latestAnalysis)

\* the results card (tabs header and tab content) can be interacted with
CardReachable == Mounted /\ ~OverlayShown

-----------------------------------------------------------------------------
(* The score surfaces *)

MandatoryScores == {"score_fidelity", "score_syntax", "score_accessibility"}

OptionalScores == {"score_responsiveness", "score_visual"}

\* a || b
OrElse(a, b) == IF Truthy(a) THEN a ELSE b

\* the analysis tab shows the score cards: latestAnalysis && !error
AnalysisShown ==
    /\ activeTab = "analysis"
    /\ Truthy(latestAnalysis)
    /\ ~Truthy(Get(latestAnalysis, "error"))

\* <div className={getScoreColor(v)}>{v}</div>
ScoreCard(v) == [cls |-> getScoreColor(v), shown |-> v]

\* <div className={getScoreColor(v || 0)}>{v || 'N/A'}</div>
OptionalScoreCard(v) ==
    [cls   |-> getScoreColor(OrElse(v, JNum(0))),
     shown |-> OrElse(v, JStr("N/A"))]

\* the five score cards of the analysis tab
ScoreCards ==
    [k \in MandatoryScores \cup OptionalScores |->
        IF k \in OptionalScores
        THEN OptionalScoreCard(Get(latestAnalysis, k))
        ELSE ScoreCard(Get(latestAnalysis, k))]

\* the concise scores under an assistant turn of the chat tab
\* F: {score_fidelity} | ... | R: {score_responsiveness || 'N/A'} | ...
ChatScores(content) ==
    [k \in MandatoryScores \cup OptionalScores |->
        IF k \in OptionalScores
        THEN OrElse(Get(content, k), JStr("N/A"))
        ELSE Get(content, k)]

-----------------------------------------------------------------------------
(* Inline handlers *)

\* an edit of the document that abandons the request under way
SetHtmlInput_cancels(v) ==
    /\ Mounted
    /\ htmlInput' = v
    /\ loading' = FALSE
    /\ pending' = <<>>
    /\ Called("-")
    /\ UNCHANGED <<activeTab, chatHistory, latestAnalysis,
                   chatInput, showJson>>

\* textarea onChange
SetHtmlInput(v) ==
    /\ Mounted
    /\ htmlInput' = v
    /\ Called("-")
    /\ UNCHANGED <<activeTab, chatHistory, latestAnalysis, loading,
                   chatInput, showJson, pending>>

\* chat input onChange (the input exists on the chat tab only)
SetChatInput(v) ==
    /\ CardReachable
    /\ activeTab = "chat"
    /\ chatInput' = v
    /\ Called("-")
    /\ UNCHANGED <<activeTab, htmlInput, chatHistory, latestAnalysis,
                   loading, showJson, pending>>

\* the four tab buttons
SetActiveTab(tab) ==
    /\ CardReachable
    /\ activeTab' = tab
    /\ Called("-")
    /\ UNCHANGED <<htmlInput, chatHistory, latestAnalysis, loading,
                   chatInput, showJson, pending>>

\* "View Raw JSON Score", shown on the analysis tab for a non-error analysis
OpenJson ==
    /\ CardReachable
    /\ activeTab = "analysis"
    /\ Truthy(latestAnalysis)
    /\ ~Truthy(Get(latestAnalysis, "error"))
    /\ showJson' = TRUE
    /\ Called("-")
    /\ UNCHANGED <<activeTab, htmlInput, chatHistory, latestAnalysis,
                   loading, chatInput, pending>>

\* "Close" on the JSON overlay
CloseJson ==
    /\ Mounted
    /\ OverlayShown
    /\ showJson' = FALSE
    /\ Called("-")
    /\ UNCHANGED <<activeTab, htmlInput, chatHistory, latestAnalysis,
                   loading, chatInput, pending>>

-----------------------------------------------------------------------------
(* handleEvaluate *)

\* the button kept disabled while the analysis shows an error
EvaluateDisabled_afterError ==
    loading \/ Trim(htmlInput) = "" \/ Truthy(Get(latestAnalysis, "error"))

\* the button without the busy check
EvaluateDisabled_noBusy == Trim(htmlInput) = ""

\* disabled={loading || !htmlInput.trim()} on the Evaluate button
EvaluateDisabled == loading \/ Trim(htmlInput) = ""

\* if (!htmlInput.trim()) return;
HandleEvaluateReturns == Trim(htmlInput) = ""

\* { role: 'user', content: `Evaluate this HTML:\n${htmlInput}` }
InitialMsg == Turn("user", JStr("Evaluate this HTML:\n" \o htmlInput))

\* a greeting turn of role system kept at the head of the history
EvaluateNewHistory_greeting ==
    <<Turn("system", JStr("I am your AI HTML Judge.")), InitialMsg>>

\* the fresh turn appended to the old history instead of replacing it
EvaluateNewHistory_keep == Append(chatHistory, InitialMsg)

\* const newHistory = [initialMsg]
EvaluateNewHistory == <<InitialMsg>>

\* the submission that leaves the previous analysis on display
handleEvaluate_keepAnalysis ==
    IF HandleEvaluateReturns
    THEN /\ Called("handleEvaluate:return")
         /\ UNCHANGED <<activeTab, htmlInput, chatHistory, latestAnalysis,
                        loading, chatInput, showJson, pending>>
    ELSE /\ loading' = TRUE
         /\ activeTab' = "logs"
         /\ showJson' = FALSE
         /\ chatHistory' = EvaluateNewHistory
         /\ pending' = Append(pending,
                [kind |-> "evaluate",
                 messages |-> apiMessages(EvaluateNewHistory)])
         /\ Called("handleEvaluate:sent")
         /\ UNCHANGED <<htmlInput, chatInput, latestAnalysis>>

\* handleEvaluate up to the await of callApi(newHistory)
handleEvaluate ==
    IF HandleEvaluateReturns
    THEN /\ Called("handleEvaluate:return")
         /\ UNCHANGED <<activeTab, htmlInput, chatHistory, latestAnalysis,
                        loading, chatInput, showJson, pending>>
    ELSE /\ loading' = TRUE
         /\ latestAnalysis' = JNull
         /\ activeTab' = "logs"
         /\ showJson' = FALSE
         /\ chatHistory' = EvaluateNewHistory
         /\ pending' = Append(pending,
                [kind |-> "evaluate",
                 messages |-> apiMessages(EvaluateNewHistory)])
         /\ Called("handleEvaluate:sent")
         /\ UNCHANGED <<htmlInput, chatInput>>

\* a click on the Evaluate button, which dispatches no event while disabled
ClickEvaluate ==
    /\ Mounted
    /\ ~EvaluateDisabled
    /\ handleEvaluate

\* the catch block showing a fixed text instead of the error's message
EvaluateAnalysis_fixedText(outcome) ==
    IF outcome.threw THEN Obj([error |-> JStr("Evaluation failed")])
    ELSE outcome.value

\* the analysis set by the catch block only
EvaluateAnalysis_failureOnly(outcome) ==
    IF outcome.threw THEN Obj([error |-> JStr(outcome.message)])
    ELSE JNull

\* try { data = await callApi(..); setLatestAnalysis(data) }
\* catch (err) { setLatestAnalysis({ error: err.message }) }
EvaluateAnalysis(outcome) ==
    IF outcome.threw THEN Obj([error |-> JStr(outcome.message)])
    ELSE outcome.value

\* the error leaving handleEvaluate uncaught, no turn recorded
EvaluateHistory_uncaught(prev, outcome) ==
    IF outcome.threw THEN prev
    ELSE Append(prev, Turn("assistant", outcome.value))

\* setChatHistory(prev => [...prev, { role: 'assistant', content: .. }])
EvaluateHistory(prev, outcome) ==
    IF outcome.threw
    THEN Append(prev, Turn("assistant", Obj([error |-> JStr(outcome.message)])))
    ELSE Append(prev, Turn("assistant", outcome.value))

-----------------------------------------------------------------------------
(* handleChatSend *)

UserTurns(history) ==
    Cardinality({i \in 1..Len(history) : history[i].role = "user"})

\* disabled={loading || !chatInput.trim()} on the send button
ChatSendDisabled == loading \/ Trim(chatInput) = ""

\* the guard without the busy check
HandleChatSendReturns_noBusy == Trim(chatInput) = ""

\* the guard without the trim
HandleChatSendReturns_noTrim == chatInput = "" \/ loading

\* if (!chatInput.trim() || loading) return;
HandleChatSendReturns == Trim(chatInput) = "" \/ loading

\* the list read before the new turn was added to it
ChatNewHistory_stale == chatHistory

\* the follow-up starting the history afresh as an evaluation does
ChatNewHistory_reset == <<Turn("user", JStr(chatInput))>>

\* const newHistory = [...chatHistory, { role: 'user', content: chatInput }]
ChatNewHistory == Append(chatHistory, Turn("user", JStr(chatInput)))

\* handleChatSend up to the await of callApi(newHistory)
handleChatSend ==
    IF HandleChatSendReturns
    THEN /\ Called("handleChatSend:return")
         /\ UNCHANGED <<activeTab, htmlInput, chatHistory, latestAnalysis,
                        loading, chatInput, showJson, pending>>
    ELSE /\ UserTurns(chatHistory) < MaxUserTurns
         /\ chatHistory' = ChatNewHistory
         /\ chatInput' = ""
         /\ loading' = TRUE
         /\ pending' = Append(pending,
                [kind |-> "chat", messages |-> apiMessages(ChatNewHistory)])
         /\ Called("handleChatSend:sent")
         /\ UNCHANGED <<activeTab, htmlInput, latestAnalysis, showJson>>

\* onKeyDown: Enter in the chat input
PressEnter ==
    /\ CardReachable
    /\ activeTab = "chat"
    /\ handleChatSend

\* a click on the send button, which dispatches no event while disabled
ClickSend ==
    /\ CardReachable
    /\ activeTab = "chat"
    /\ ~ChatSendDisabled
    /\ handleChatSend

\* the try block after the await: the turn is appended, then
\* data.score_fidelity is read, which throws on a null body
ChatReadThrows(outcome) == ~outcome.threw /\ IsNullish(outcome.value)

\* a chat answer that never reaches the analysis view
ChatAnalysis_never(analysis, outcome) == analysis

\* a failed chat that overwrites the analysis as a failed evaluation does
ChatAnalysis_failure(analysis, outcome) ==
    IF outcome.threw THEN Obj([error |-> JStr(outcome.message)])
    ELSE IF ~IsNullish(outcome.value)
            /\ Get(outcome.value, "score_fidelity") # Undefined
    THEN outcome.value
    ELSE analysis

\* if (data.score_fidelity !== undefined) setLatestAnalysis(data);
\* the catch block leaves latestAnalysis alone
ChatAnalysis(analysis, outcome) ==
    IF /\ ~outcome.threw
       /\ ~IsNullish(outcome.value)
       /\ Get(outcome.value, "score_fidelity") # Undefined
    THEN outcome.value
    ELSE analysis

\* the catch block recording nothing
ChatHistory_silent(prev, outcome) ==
    IF outcome.threw THEN prev
    ELSE Append(prev, Turn("assistant", outcome.value))

\* both setChatHistory calls of the try and the catch block
ChatHistory(prev, outcome) ==
    IF outcome.threw
    THEN Append(prev, Turn("assistant", Obj([error |-> JStr(outcome.message)])))
    ELSE IF ChatReadThrows(outcome)
    THEN Append(Append(prev, Turn("assistant", outcome.value)),
                Turn("assistant",
                     Obj([error |-> JStr(NullReadMessage("score_fidelity"))])))
    ELSE Append(prev, Turn("assistant", outcome.value))

-----------------------------------------------------------------------------
(* The evaluator answers a pending request *)

\* the answered request left in place, to be answered again
RemoveAt_keep(q, i) == q

RemoveAt(q, i) == SubSeq(q, 1, i - 1) \o SubSeq(q, i + 1, Len(q))

\* a returned fixed_html written to the editor as the answer arrives
EvaluateSettles_autoApply(i, resp) ==
    /\ Mounted
    /\ i \in 1..Len(pending)
    /\ pending[i].kind = "evaluate"
    /\ latestAnalysis' = EvaluateAnalysis(callApi(resp))
    /\ chatHistory' = EvaluateHistory(chatHistory, callApi(resp))
    /\ htmlInput' = PreviewCode(EvaluateHistory(chatHistory, callApi(resp)),
                                htmlInput)
    /\ loading' = FALSE
    /\ pending' = RemoveAt(pending, i)
    /\ lastCall' = "handleEvaluate:settled"
    /\ answer' = resp
    /\ UNCHANGED <<activeTab, chatInput, showJson>>

\* handleEvaluate from the await on: try / catch / finally
EvaluateSettles(i, resp) ==
    /\ Mounted
    /\ i \in 1..Len(pending)
    /\ pending[i].kind = "evaluate"
    /\ latestAnalysis' = EvaluateAnalysis(callApi(resp))
    /\ chatHistory' = EvaluateHistory(chatHistory, callApi(resp))
    /\ loading' = FALSE
    /\ pending' = RemoveAt(pending, i)
    /\ lastCall' = "handleEvaluate:settled"
    /\ answer' = resp
    /\ UNCHANGED <<activeTab, htmlInput, chatInput, showJson>>

\* handleChatSend from the await on: try / catch / finally
ChatSettles(i, resp) ==
    /\ Mounted
    /\ i \in 1..Len(pending)
    /\ pending[i].kind = "chat"
    /\ latestAnalysis' = ChatAnalysis(latestAnalysis, callApi(resp))
    /\ chatHistory' = ChatHistory(chatHistory, callApi(resp))
    /\ loading' = FALSE
    /\ pending' = RemoveAt(pending, i)
    /\ lastCall' = "handleChatSend:settled"
    /\ answer' = resp
    /\ UNCHANGED <<activeTab, htmlInput, chatInput, showJson>>

-----------------------------------------------------------------------------
(* handleApplyFix *)

\* the fix applied and the preview tab opened on it
handleApplyFix_andPreview(fixedHtml) ==
    /\ htmlInput' = IF Truthy(fixedHtml) THEN fixedHtml.str ELSE htmlInput
    /\ activeTab' = "preview"
    /\ Called("handleApplyFix")
    /\ UNCHANGED <<chatHistory, latestAnalysis, loading,
                   chatInput, showJson, pending>>

\* if (!fixedHtml) return; setHtmlInput(fixedHtml);
handleApplyFix(fixedHtml) ==
    /\ htmlInput' = IF Truthy(fixedHtml) THEN fixedHtml.str ELSE htmlInput
    /\ Called("handleApplyFix")
    /\ UNCHANGED <<activeTab, chatHistory, latestAnalysis, loading,
                   chatInput, showJson, pending>>

\* "Apply Fix to Editor" under an assistant turn of the chat tab
ChatApplyFix(i) ==
    /\ CardReachable
    /\ activeTab = "chat"
    /\ i \in 1..Len(chatHistory)
    /\ chatHistory[i].role # "user"
    /\ ~Truthy(Get(chatHistory[i].content, "error"))
    /\ Truthy(Get(chatHistory[i].content, "fixed_html"))
    /\ handleApplyFix(Get(chatHistory[i].content, "fixed_html"))

\* "Apply Fix" on the preview tab, shown when the preview differs
PreviewApplyFix ==
    /\ CardReachable
    /\ activeTab = "preview"
    /\ getPreviewCode # htmlInput
    /\ handleApplyFix(JStr(getPreviewCode))

-----------------------------------------------------------------------------
(* Specification *)

Next ==
    \/ \E v \in Docs : SetHtmlInput(v)
    \/ \E v \in ChatTexts : SetChatInput(v)
    \/ \E tab \in Tabs : SetActiveTab(tab)
    \/ OpenJson
    \/ CloseJson
    \/ ClickEvaluate
    \/ PressEnter
    \/ ClickSend
    \/ \E i \in 1..Len(pending), resp \in Responses : EvaluateSettles(i, resp)
    \/ \E i \in 1..Len(pending), resp \in Responses : ChatSettles(i, resp)
    \/ \E i \in 1..Len(chatHistory) : ChatApplyFix(i)
    \/ PreviewApplyFix

Spec == Init /\ [][Next]_vars

-----------------------------------------------------------------------------
(* Vocabulary of the properties *)

EvaluateAttempt == {"handleEvaluate:sent", "handleEvaluate:return"}

ChatAttempt == {"handleChatSend:sent", "handleChatSend:return"}

Settled == {"handleEvaluate:settled", "handleChatSend:settled"}

\* the expected success shape: the three mandatory scores, rationale and
\* final_judgement
IsEvaluationResult(v) ==
    /\ v.type = "object"
    /\ \A k \in {"score_fidelity", "score_syntax", "score_accessibility"} :
          Get(v, k).type = "number"
    /\ Get(v, "rationale").type = "string"
    /\ Get(v, "final_judgement").type = "string"

\* the answer is a success carrying an EvaluationResult
IsSuccess(a) ==
    a.settled = "response" /\ a.ok /\ a.json /\ IsEvaluationResult(a.value)

\* the request failed: no response, a non-success status, or an undecodable
\* body
IsFailure(a) ==
    \/ a.settled = "rejected"
    \/ a.settled = "response" /\ (~a.ok \/ ~a.json)

IsFailureTurn(t) ==
    /\ t.role = "assistant"
    /\ t.content.type = "object"
    /\ DOMAIN t.content.props = {"error"}
    /\ t.content.props.error.type = "string"

-----------------------------------------------------------------------------
(* C1 *)

\* C1: whenever the Evaluate button is pressed with a non-blank editor
\* document while idle, whatever the history was, the step replaces the
\* history by exactly one user turn whose content contains the document,
\* and dispatches one request whose transcript is exactly that turn.
C1_EvaluateResetsHistory ==
    [][ (lastCall' \in EvaluateAttempt /\ ~loading /\ Trim(htmlInput) # "")
        => /\ lastCall' = "handleEvaluate:sent"
           /\ Len(chatHistory') = 1
           /\ chatHistory'[1].role = "user"
           /\ chatHistory'[1].content.type = "string"
           /\ Includes(chatHistory'[1].content.str, htmlInput)
           /\ Len(pending') = Len(pending) + 1
           /\ pending'[Len(pending')].messages
                = <<[role |-> "user", content |-> chatHistory'[1].content.str]>>
      ]_vars

\* an applied fix of an earlier conversation has been submitted afresh
C1_Witness ==
    /\ lastCall = "handleEvaluate:sent"
    /\ htmlInput = "<a>"
    /\ Len(chatHistory) = 1
    /\ Len(pending) = 1

-----------------------------------------------------------------------------
(* C2 *)

\* C2: at most one request is outstanding, the busy flag is set exactly
\* while one is, and a step taken while busy never dispatches or queues a
\* request: a submission attempted then leaves history, analysis, busy
\* flag and outstanding requests as they were.
C2_SingleOutstandingRequest ==
    [][ /\ Len(pending') <= 1
        /\ loading' = (Len(pending') = 1)
        /\ loading
              => /\ Len(pending') <= Len(pending)
                 /\ lastCall' \notin {"handleEvaluate:sent", "handleChatSend:sent"}
        /\ (loading /\ lastCall' \in (EvaluateAttempt \cup ChatAttempt))
              => UNCHANGED <<chatHistory, latestAnalysis, loading, pending,
                             htmlInput, chatInput>>
      ]_vars

\* a chat was attempted, with a non-blank text and a non-blank editor
\* document at hand, while an evaluation request was out
C2_Witness ==
    /\ loading
    /\ Len(pending) = 1
    /\ pending[1].kind = "evaluate"
    /\ lastCall = "handleChatSend:return"
    /\ Trim(chatInput) # ""
    /\ Trim(htmlInput) # ""

-----------------------------------------------------------------------------
(* C3 *)

\* C3: handleChatSend entered (send button or Enter key) while loading is
\* a no-op: the history, hence its length, is unchanged and no request is
\* dispatched.
C3_ChatSendWhileEvaluatingIsNoOp ==
    [][ (loading /\ lastCall' \in ChatAttempt)
        => /\ Len(chatHistory') = Len(chatHistory)
           /\ chatHistory' = chatHistory
           /\ pending' = pending
           /\ loading'
      ]_vars

\* Enter was pressed with a non-blank chat text while a request was out
C3_Witness ==
    /\ loading
    /\ lastCall = "handleChatSend:return"
    /\ Trim(chatInput) # ""
    /\ Len(pending) = 1
    /\ pending[1].kind = "chat"
    /\ Len(chatHistory) = 3

-----------------------------------------------------------------------------
(* C4 *)

\* C4: with a blank (empty or whitespace-only) editor document no
\* evaluation is accepted, with a blank chat text no chat is; a submission
\* attempted then appends no turn, leaves history and analysis unchanged,
\* leaves the busy flag as it was and dispatches nothing.
C4_BlankSubmissionRejected ==
    [][ /\ Trim(htmlInput) = "" => lastCall' # "handleEvaluate:sent"
        /\ Trim(chatInput) = "" => lastCall' # "handleChatSend:sent"
        /\ (\/ lastCall' \in EvaluateAttempt /\ Trim(htmlInput) = ""
            \/ lastCall' \in ChatAttempt /\ Trim(chatInput) = "")
              => UNCHANGED <<chatHistory, latestAnalysis, loading, pending>>
      ]_vars

\* Enter was pressed on a whitespace-only chat text while idle
C4_Witness ==
    /\ ~loading
    /\ lastCall = "handleChatSend:return"
    /\ chatInput = "  "
    /\ htmlInput = " \n"
    /\ pending = <<>>

-----------------------------------------------------------------------------
(* C5 *)

\* C5: when a request, fresh evaluation or follow-up chat, is answered by
\* a success carrying an EvaluationResult, the step clears the busy flag,
\* appends exactly one assistant turn whose content is the result and sets
\* latestAnalysis to the result.
C5_SuccessUpdatesAnalysis ==
    [][ (lastCall' \in Settled /\ IsSuccess(answer'))
        => /\ ~loading'
           /\ chatHistory' = Append(chatHistory,
                                    Turn("assistant", answer'.value))
           /\ latestAnalysis' = answer'.value
      ]_vars

\* a follow-up chat was answered by a result that replaced another analysis
C5_Witness ==
    /\ lastCall = "handleChatSend:settled"
    /\ IsSuccess(answer)
    /\ latestAnalysis = ResultFixB
    /\ Len(chatHistory) = 4
    /\ chatHistory[2].content = ResultPass

-----------------------------------------------------------------------------
(* C6 *)

\* C6: a chat request that fails leaves latestAnalysis as it was, an
\* evaluation request that fails sets latestAnalysis to the failure, and
\* either appends exactly one assistant turn carrying the failure; nothing
\* changes latestAnalysis between a submission and its answer.
C6_FailureIsolation ==
    [][ /\ (lastCall' = "handleChatSend:settled" /\ IsFailure(answer'))
              => /\ latestAnalysis' = latestAnalysis
                 /\ Len(chatHistory') = Len(chatHistory) + 1
                 /\ SubSeq(chatHistory', 1, Len(chatHistory)) = chatHistory
                 /\ IsFailureTurn(chatHistory'[Len(chatHistory')])
        /\ (lastCall' = "handleEvaluate:settled" /\ IsFailure(answer'))
              => /\ Len(chatHistory') = Len(chatHistory) + 1
                 /\ SubSeq(chatHistory', 1, Len(chatHistory)) = chatHistory
                 /\ IsFailureTurn(chatHistory'[Len(chatHistory')])
                 /\ latestAnalysis' = chatHistory'[Len(chatHistory')].content
        /\ (loading /\ lastCall' \notin Settled)
              => latestAnalysis' = latestAnalysis
      ]_vars

\* a follow-up chat failed while a good analysis was on display
C6_Witness ==
    /\ lastCall = "handleChatSend:settled"
    /\ IsFailure(answer)
    /\ latestAnalysis = ResultPass
    /\ Len(chatHistory) = 4
    /\ IsFailureTurn(chatHistory[4])

-----------------------------------------------------------------------------
(* Vocabulary of the Reconciler properties *)

IsAssistant(history, i) == history[i].role = "assistant"

\* rule 1: the turn carries a non-empty fixed_html
HasFixedHtml(history, i) ==
    /\ IsAssistant(history, i)
    /\ Get(history[i].content, "fixed_html").type = "string"
    /\ Get(history[i].content, "fixed_html").str # ""

\* an opening fence tagged html and a closing fence after it
HasHtmlFence(s) ==
    LET i == IndexOf(s, Fence \o "html", 1)
    IN  i # 0 /\ IndexOf(s, Fence, i + 7) # 0

\* rule 2: the turn carries a rationale holding an html-fenced block
HasFencedRationale(history, i) ==
    /\ IsAssistant(history, i)
    /\ Get(history[i].content, "rationale").type = "string"
    /\ HasHtmlFence(Get(history[i].content, "rationale").str)

FixedTurns(history) ==
    {i \in 1..Len(history) : HasFixedHtml(history, i)}

FixBearingTurns(history) ==
    {i \in 1..Len(history) :
        HasFixedHtml(history, i) \/ HasFencedRationale(history, i)}

Latest(S) == CHOOSE i \in S : \A j \in S : j <= i

\* the interior of the first html-fenced block of s
FirstBlockInterior(s) ==
    LET i == IndexOf(s, Fence \o "html", 1)
        j == IndexOf(s, Fence, i + 7)
    IN  SubSeq(s, i + 7, j - 1)

\* one pass, most recent turn first, rule 1 then rule 2 on each turn,
\* stopping at the first turn that satisfies either
SinglePassPreview(history, editor) ==
    IF FixBearingTurns(history) = {} THEN editor
    ELSE LET t == Latest(FixBearingTurns(history))
         IN  IF HasFixedHtml(history, t)
             THEN Get(history[t].content, "fixed_html").str
             ELSE FirstBlockInterior(Get(history[t].content, "rationale").str)

-----------------------------------------------------------------------------
(* C7 *)

\* C7: the preview document is the one found by a single most-recent-first
\* pass over the assistant turns that tries rule 1 and then rule 2 on each
\* turn and stops at the first turn satisfying either, so that a newer
\* turn with an html-fenced rationale supersedes an older turn with
\* fixed_html.
C7_SinglePassMostRecentFirst ==
    getPreviewCode = SinglePassPreview(chatHistory, htmlInput)

-----------------------------------------------------------------------------
(* C8 *)

\* C8: when two or more assistant turns carry a non-empty fixed_html, the
\* preview document is the fixed_html of the most recent of them, and the
\* user turns play no part: the preview of the assistant turns alone is
\* the same document.
C8_MostRecentFixedHtmlWins ==
    /\ Cardinality(FixedTurns(chatHistory)) >= 2
          => getPreviewCode =
                Get(chatHistory[Latest(FixedTurns(chatHistory))].content,
                    "fixed_html").str
    /\ getPreviewCode =
          PreviewCode(SelectSeq(chatHistory,
                                LAMBDA t : t.role = "assistant"), htmlInput)

\* T1 older with "<a>", T2 newer with "<b>", and the preview is "<b>"
C8_Witness ==
    /\ Len(chatHistory) = 4
    /\ chatHistory[2].content = ResultFixA
    /\ chatHistory[4].content = ResultFixB
    /\ getPreviewCode = "<b>"
    /\ htmlInput # "<b>"

-----------------------------------------------------------------------------
(* C9 *)

\* C9: when the only fix-bearing assistant turn has no fixed_html and its
\* rationale is an html fence around the line <p>hi</p> (opener tagged
\* html, newline, <p>hi</p>, newline, closing fence), the preview document
\* is exactly <p>hi</p>, without a leading or trailing newline.
C9_FencedBlockYieldsBareMarkup ==
    (\E i \in 1..Len(chatHistory) :
        /\ FixBearingTurns(chatHistory) = {i}
        /\ ~HasFixedHtml(chatHistory, i)
        /\ Get(chatHistory[i].content, "rationale") = JStr(FencedRationale))
    => getPreviewCode = "<p>hi</p>"

-----------------------------------------------------------------------------
(* C10 *)

\* C10: when no assistant turn carries a non-empty fixed_html or an
\* html-fenced rationale (no assistant turn at all, or failure turns only,
\* among others), the preview document is the current editor document.
C10_NoFixFallsBackToEditor ==
    FixBearingTurns(chatHistory) = {} => getPreviewCode = htmlInput

\* a failed evaluation and a failed follow-up, the editor edited since
C10_Witness ==
    /\ Len(chatHistory) = 4
    /\ IsFailureTurn(chatHistory[2])
    /\ IsFailureTurn(chatHistory[4])
    /\ htmlInput = "<div>Hi</div>"
    /\ chatHistory[1].content.str # "Evaluate this HTML:\n" \o htmlInput
    /\ getPreviewCode = htmlInput

-----------------------------------------------------------------------------
(* Vocabulary of the error-handling properties *)

LastTurn(history) == history[Len(history)]

\* the answer is a response with a non-success status
IsNotOk(a) == a.settled = "response" /\ ~a.ok

\* the request did not succeed: rejected fetch or non-success status
IsRefusal(a) == a.settled = "rejected" \/ IsNotOk(a)

\* the failure turn carrying message m
FailureTurn(m) == Turn("assistant", Obj([error |-> JStr(m)]))

-----------------------------------------------------------------------------
(* C11 *)

\* the document two passes over the history give, written as a function
\* of the history and the editor document alone: the fixed_html of the
\* most recent turn carrying one; failing that the fenced block of the
\* most recent turn whose rationale holds one; failing that the editor
TwoPassPreview(history, editor) ==
    LET F == FixedTurns(history)
        R == {i \in 1..Len(history) : HasFencedRationale(history, i)}
    IN  IF F # {} THEN Get(history[Latest(F)].content, "fixed_html").str
        ELSE IF R # {}
        THEN FirstBlockInterior(Get(history[Latest(R)].content, "rationale").str)
        ELSE editor

\* C11: the preview document is a function of the history and the editor
\* document only: in every state it is the document that function gives,
\* whatever the tab, the busy flag, the analysis or the outstanding
\* request are, so that computing it again in an unchanged state gives
\* the same document; and the computation changes nothing: the document
\* the preview tab's Apply Fix hands over is the one the tab was rendered
\* with, and the step changes at most the editor document.
C11_ExtractionIdempotent ==
    /\ [](getPreviewCode = TwoPassPreview(chatHistory, htmlInput))
    /\ [][ (lastCall' = "handleApplyFix" /\ activeTab = "preview")
            => /\ htmlInput' \in {getPreviewCode, htmlInput}
               /\ UNCHANGED <<activeTab, chatHistory, latestAnalysis,
                              loading, chatInput, showJson, pending>>
         ]_vars

\* the fenced block of the last answer was previewed and applied
C11_Witness ==
    /\ lastCall = "handleApplyFix"
    /\ activeTab = "preview"
    /\ htmlInput = "\n<p>hi</p>\n"
    /\ getPreviewCode = htmlInput

-----------------------------------------------------------------------------
(* C12 *)

\* C12: whatever the evaluator answers to a dispatched request short of
\* a success status (a non-success status with a JSON body, with a
\* non-JSON body, with an empty body, or a rejected fetch), the step that
\* handles the answer appends exactly one assistant failure turn to the
\* history and leaves the controller idle with no request outstanding.
C12_FailureNeverEscapes ==
    [][ (lastCall' \in Settled /\ IsRefusal(answer'))
        => /\ Len(chatHistory') = Len(chatHistory) + 1
           /\ SubSeq(chatHistory', 1, Len(chatHistory)) = chatHistory
           /\ IsFailureTurn(LastTurn(chatHistory'))
           /\ ~loading'
           /\ pending' = <<>>
      ]_vars

\* an evaluation was answered by a non-success status whose JSON body is
\* null, the read of its detail having thrown inside callApi
C12_Witness ==
    /\ lastCall = "handleEvaluate:settled"
    /\ answer = JsonResponse(FALSE, JNull)
    /\ Len(chatHistory) = 2
    /\ chatHistory[2] = FailureTurn(NullReadMessage("detail"))
    /\ ~loading

-----------------------------------------------------------------------------
(* C13 *)

\* C13: on a non-success response the failure message is the detail of
\* the JSON body when the body parses and carries one; the raw text of
\* the body when it does not parse (a plain-text body B gives message
\* B); and the generic message when there is no text either.
C13_ThreeTierFallback ==
    [][ (lastCall' \in Settled /\ IsNotOk(answer'))
        => LET a == answer'
               m == LastTurn(chatHistory').content.props.error.str
           IN  /\ (a.json /\ Get(a.value, "detail").type = "string"
                          /\ Get(a.value, "detail").str # "")
                    => m = Get(a.value, "detail").str
               /\ (~a.json /\ a.text # "") => m = a.text
               /\ (~a.json /\ a.text = "") => m = "Request failed"
      ]_vars

-----------------------------------------------------------------------------
(* C14 *)

\* C14: a non-success response whose JSON body carries a non-empty string
\* detail d yields a failure turn with message d; when the failed request
\* was an evaluation (as the one of <div>Hi</div> answered with status
\* 500 and body {"detail":"rate limited"}), the history then has length
\* 2, its second turn is that failure turn, the current analysis is that
\* failure and the controller is idle.
C14_FailureScenario ==
    [][ (/\ lastCall' \in Settled
         /\ IsNotOk(answer')
         /\ answer'.json
         /\ Get(answer'.value, "detail").type = "string"
         /\ Get(answer'.value, "detail").str # "")
        => LET d == Get(answer'.value, "detail").str
           IN  /\ LastTurn(chatHistory') = FailureTurn(d)
               /\ ~loading'
               /\ pending' = <<>>
               /\ lastCall' = "handleEvaluate:settled"
                    => /\ Len(chatHistory') = 2
                       /\ chatHistory'[1] = chatHistory[1]
                       /\ latestAnalysis' = Obj([error |-> JStr(d)])
      ]_vars

\* the scenario: <div>Hi</div> submitted and answered by "rate limited"
C14_Witness ==
    /\ lastCall = "handleEvaluate:settled"
    /\ answer = JsonResponse(FALSE, Obj([detail |-> JStr("rate limited")]))
    /\ chatHistory = <<Turn("user", JStr("Evaluate this HTML:\n<div>Hi</div>")),
                       FailureTurn("rate limited")>>
    /\ latestAnalysis = Obj([error |-> JStr("rate limited")])
    /\ ~loading
    /\ pending = <<>>

-----------------------------------------------------------------------------
(* C15 *)

\* the body of a success response cannot be decoded as an EvaluationResult
IsUndecodable(a) ==
    /\ a.settled = "response"
    /\ a.ok
    /\ (a.json => ~IsEvaluationResult(a.value))

\* C15: a response with success status whose body is not decodable as the
\* expected success shape (malformed JSON, or JSON lacking a mandatory
\* score, rationale or final_judgement) is recorded as a failure turn,
\* and its body becomes neither the content of a turn nor the current
\* analysis.
C15_ProtocolFailureIsFailure ==
    [][ (lastCall' \in Settled /\ IsUndecodable(answer'))
        => /\ \A i \in (Len(chatHistory) + 1)..Len(chatHistory') :
                  IsFailureTurn(chatHistory'[i])
           /\ answer'.json => latestAnalysis' # answer'.value
      ]_vars

-----------------------------------------------------------------------------
(* C16 *)

\* C16: when an evaluation is answered with success status and the body
\* {score_fidelity 90, score_syntax 85, score_accessibility 70, rationale
\* "ok", final_judgement "pass", fixed_html null}, the history has length
\* 2 (the submitted user turn, then the assistant turn carrying the
\* body), the current analysis has score_fidelity 90, the controller is
\* idle and the preview document is the editor document.
C16_SuccessScenario ==
    [][ (lastCall' = "handleEvaluate:settled"
         /\ answer' = JsonResponse(TRUE, ResultPass))
        => /\ Len(chatHistory') = 2
           /\ chatHistory'[1] = chatHistory[1]
           /\ chatHistory'[1].role = "user"
           /\ chatHistory'[2] = Turn("assistant", ResultPass)
           /\ Get(latestAnalysis', "score_fidelity") = JNum(90)
           /\ ~loading'
           /\ pending' = <<>>
           /\ getPreviewCode' = htmlInput'
      ]_vars

\* the scenario: <div>Hi</div> submitted and answered by the passing body
C16_Witness ==
    /\ lastCall = "handleEvaluate:settled"
    /\ htmlInput = "<div>Hi</div>"
    /\ chatHistory = <<Turn("user", JStr("Evaluate this HTML:\n<div>Hi</div>")),
                       Turn("assistant", ResultPass)>>
    /\ latestAnalysis = ResultPass
    /\ getPreviewCode = "<div>Hi</div>"
    /\ ~loading

-----------------------------------------------------------------------------
(* C17 *)

IsPrefix(a, b) == Len(a) <= Len(b) /\ SubSeq(b, 1, Len(a)) = a

\* C17: every step other than an accepted evaluation submission (chat
\* submission, handling of a success or a failure, apply fix, tab change,
\* edits) leaves the turns already in the history unchanged and in the
\* same order, as a prefix of the new history.
C17_AppendOnlyBetweenResets ==
    [][ lastCall' # "handleEvaluate:sent" => IsPrefix(chatHistory, chatHistory')
      ]_vars

\* a follow-up was submitted and answered on top of an evaluation
C17_Witness ==
    /\ lastCall = "handleChatSend:settled"
    /\ Len(chatHistory) = 4
    /\ chatHistory[2].content = ResultFixA
    /\ chatHistory[3] = Turn("user", JStr("Fix the contrast"))

-----------------------------------------------------------------------------
(* C18 *)

WireRoles == {"user", "assistant"}

-----------------------------------------------------------------------------
(* C19 *)

\* the serialized text of three contents, written out
PassText ==
    "{\"score_fidelity\":90,\"score_syntax\":85,\"score_accessibility\":70,"
    \o "\"rationale\":\"ok\",\"final_judgement\":\"pass\",\"fixed_html\":null}"

FencedText ==
    "{\"score_fidelity\":60,\"score_syntax\":85,\"score_accessibility\":70,"
    \o "\"rationale\":\"" \o Fence \o "html\\n<p>hi</p>\\n" \o Fence
    \o "\",\"final_judgement\":\"pass\"}"

RateLimitedText == "{\"error\":\"rate limited\"}"

\* C19: the transcript of a request dispatched lists the turns of the
\* history in their order, one message per turn with the turn's role, and
\* every content is a string: a string content unchanged, a structured
\* content (result or failure) as its serialized text.
C19_WireFormat ==
    [][ lastCall' \in {"handleEvaluate:sent", "handleChatSend:sent"}
        => LET msgs == pending'[Len(pending')].messages
               H    == chatHistory'
           IN  /\ Len(msgs) = Len(H)
               /\ \A i \in 1..Len(H) :
                    /\ msgs[i].role = H[i].role
                    /\ msgs[i].content \in STRING
                    /\ H[i].content.type = "string"
                         => msgs[i].content = H[i].content.str
                    /\ H[i].content = ResultPass => msgs[i].content = PassText
                    /\ H[i].content = ResultFenced
                         => msgs[i].content = FencedText
                    /\ H[i].content = Obj([error |-> JStr("rate limited")])
                         => msgs[i].content = RateLimitedText
                    /\ H[i].content = JNull => msgs[i].content = "null"
      ]_vars

\* a follow-up was dispatched after an answer with a fenced rationale
C19_Witness ==
    /\ lastCall = "handleChatSend:sent"
    /\ Len(pending) = 1
    /\ Len(chatHistory) = 3
    /\ chatHistory[2].content = ResultFenced
    /\ pending[1].messages[2].content = FencedText
    /\ pending[1].messages[3].content = "Fix the contrast"

-----------------------------------------------------------------------------
(* C20 *)

\* the fixes the two surfaces offer: the fixed_html of an assistant turn
\* on the chat tab, the preview document on the preview tab
OfferedFixes ==
    {Get(chatHistory[i].content, "fixed_html").str :
        i \in {j \in 1..Len(chatHistory) :
                  Get(chatHistory[j].content, "fixed_html").type = "string"}}
    \cup {getPreviewCode}

-----------------------------------------------------------------------------
(* C21 *)

\* C21: the editor document is left as it is by every step of the
\* conversation machinery (an evaluation or chat submission, accepted or
\* not, and the handling of a success or of a failure); a step that
\* changes it is a user edit or an apply fix.
C21_EditorUntouched ==
    [][ /\ lastCall' \in (EvaluateAttempt \cup ChatAttempt \cup Settled)
            => htmlInput' = htmlInput
        /\ htmlInput' # htmlInput => lastCall' \in {"-", "handleApplyFix"}
      ]_vars

\* a follow-up failed after a fix had been applied: the fix is still there
C21_Witness ==
    /\ lastCall = "handleChatSend:settled"
    /\ IsFailure(answer)
    /\ htmlInput = "<a>"
    /\ IsFailureTurn(LastTurn(chatHistory))

-----------------------------------------------------------------------------
(* C22 *)

-----------------------------------------------------------------------------
(* C23 *)

\* C23: the busy flag is cleared only by the step that handles the answer
\* to the outstanding request: every other step taken while busy (edits,
\* tab changes, apply fix, submission attempts) leaves the controller
\* busy with the same request outstanding and accepts no submission.
C23_OnlyAnswerLeavesEvaluating ==
    [][ /\ (loading /\ ~loading')
            => /\ lastCall' \in Settled
               /\ Len(pending) = 1
               /\ pending' = <<>>
        /\ (loading /\ lastCall' \notin Settled)
            => /\ loading'
               /\ pending' = pending
               /\ chatHistory' = chatHistory
               /\ lastCall' \notin {"handleEvaluate:sent", "handleChatSend:sent"}
      ]_vars

\* the user changed tab and blanked the editor while the request was out
C23_Witness ==
    /\ loading
    /\ Len(pending) = 1
    /\ lastCall = "-"
    /\ activeTab = "preview"
    /\ htmlInput = " \n"

-----------------------------------------------------------------------------
(* C24 *)

\* C24: an accepted evaluation submission leaves the analysis tab
\* active, whatever tab was active before.
C24_EvaluateForcesAnalysisTab ==
    [][ lastCall' = "handleEvaluate:sent" => activeTab' = "analysis" ]_vars

-----------------------------------------------------------------------------
(* C25 *)

\* an evaluation request is outstanding
Evaluating == Len(pending) > 0 /\ pending[1].kind = "evaluate"

\* C25: from the step that accepts an evaluation until the step that
\* handles its answer the current analysis is null and the history is
\* the one fresh user turn: nothing of the previous conversation is left.
C25_FreshEvaluationClearsAnalysis ==
    Evaluating
        => /\ latestAnalysis = JNull
           /\ Len(chatHistory) = 1
           /\ chatHistory[1].role = "user"

\* a fix of the previous conversation was applied and submitted, and the
\* user looks at the analysis tab while the request is out
C25_Witness ==
    /\ Evaluating
    /\ htmlInput = "<a>"
    /\ activeTab = "analysis"
    /\ latestAnalysis = JNull

-----------------------------------------------------------------------------
(* C26 *)

TierClasses == {"text-high", "text-mid", "text-low"}

\* the tier of an integer score, threshold 70
TierOf(n) ==
    CASE n \in 80..100 -> "text-high"
      [] n \in 70..79  -> "text-mid"
      [] n \in 0..69   -> "text-low"

TieringOnAllScores ==
    \A n \in 0..100 : getScoreColor(JNum(n)) = TierOf(n)

\* C26: every integer score from 0 to 100 is classified high from 80 up,
\* mid from 70 to 79 and low below 70, and every score card the analysis
\* tab shows for a score in that range carries that same classification.
C26_TieringAt70 ==
    /\ TieringOnAllScores
    /\ AnalysisShown
         => \A k \in MandatoryScores \cup OptionalScores :
               LET v == Get(latestAnalysis, k)
               IN  (v.type = "number" /\ v.num \in 0..100)
                      => ScoreCards[k].cls = TierOf(v.num)

\* the analysis tab shows the scores 79, 80 and 69
C26_Witness ==
    /\ AnalysisShown
    /\ latestAnalysis = ResultFixA
    /\ ScoreCards["score_fidelity"] = [cls |-> "text-mid", shown |-> JNum(79)]
    /\ ScoreCards["score_syntax"] = [cls |-> "text-high", shown |-> JNum(80)]
    /\ ScoreCards["score_accessibility"] = [cls |-> "text-low", shown |-> JNum(69)]

-----------------------------------------------------------------------------
(* C27 *)

\* C27: on the score surfaces an absent optional score is not classified
\* as a score of 0 would be (it gets no tier), and an optional score that
\* is present with value 0 is shown as 0, on the analysis tab as under
\* the turns of the chat tab.
C27_AbsentIsNotZero ==
    /\ AnalysisShown
         => \A k \in OptionalScores :
               LET v == Get(latestAnalysis, k)
               IN  /\ v = Undefined => ScoreCards[k].cls \notin TierClasses
                   /\ v = JNum(0) => ScoreCards[k].shown = JNum(0)
    /\ \A i \in 1..Len(chatHistory) :
          (chatHistory[i].role = "assistant"
           /\ IsEvaluationResult(chatHistory[i].content))
            => \A k \in OptionalScores :
                  Get(chatHistory[i].content, k) = JNum(0)
                     => ChatScores(chatHistory[i].content)[k] = JNum(0)

-----------------------------------------------------------------------------
(* C28 *)

\* every score the content carries is a number from 0 to 100
ScoresInRange(content) ==
    \A k \in MandatoryScores \cup OptionalScores :
        Get(content, k).type = "number" => Get(content, k).num \in 0..100

\* C28: in every state the scores present in the current analysis and in
\* every assistant turn of the history lie between 0 and 100, whatever
\* numbers the evaluator answered.
C28_ScoresBounded ==
    /\ ScoresInRange(latestAnalysis)
    /\ \A i \in 1..Len(chatHistory) :
          chatHistory[i].role = "assistant"
             => ScoresInRange(chatHistory[i].content)

-----------------------------------------------------------------------------
(* C29 *)

\* C29: a request is issued by an accepted submission and by nothing
\* else, one per submission; the step that handles an answer, success or
\* failure, takes the answered request away and issues none, and so does
\* every later step until the user submits again.
C29_OneRequestPerSubmission ==
    [][ /\ lastCall' \in {"handleEvaluate:sent", "handleChatSend:sent"}
            => /\ Len(pending') = Len(pending) + 1
               /\ SubSeq(pending', 1, Len(pending)) = pending
        /\ lastCall' \in Settled
            => /\ Len(pending') = Len(pending) - 1
               /\ pending' = <<>>
        /\ lastCall' \notin {"handleEvaluate:sent", "handleChatSend:sent"}
            => Len(pending') <= Len(pending)
      ]_vars

\* after a failed evaluation the user looked at the chat tab and typed a
\* text: no request has gone out since
C29_Witness ==
    /\ pending = <<>>
    /\ ~loading
    /\ Len(chatHistory) = 2
    /\ IsFailureTurn(chatHistory[2])
    /\ latestAnalysis = chatHistory[2].content
    /\ activeTab = "chat"
    /\ chatInput = "Fix the contrast"
    /\ lastCall = "-"

-----------------------------------------------------------------------------
(* C30 *)

\* user, assistant, user, assistant, ... ending with an assistant turn
Alternates(history) ==
    /\ Len(history) % 2 = 0
    /\ \A i \in 1..Len(history) :
          history[i].role = (IF i % 2 = 1 THEN "user" ELSE "assistant")

\* C30: the step that handles the answer to a request appends exactly one
\* assistant turn, whatever the answer (a success body that is JSON null
\* or lacks the scores included); so whenever the controller is idle the
\* history is empty or alternates user, assistant, ..., ending with an
\* assistant turn.
C30_OneTurnPerAnswer ==
    /\ [][ lastCall' \in Settled
            => /\ Len(chatHistory') = Len(chatHistory) + 1
               /\ SubSeq(chatHistory', 1, Len(chatHistory)) = chatHistory
               /\ LastTurn(chatHistory').role = "assistant"
         ]_vars
    /\ [](~loading => Alternates(chatHistory))

-----------------------------------------------------------------------------
(* C31 *)

\* C31: in every state the busy flag is set exactly when the history is
\* non-empty and ends with a user turn, a request for that turn being
\* outstanding; it is clear exactly when the history is empty or ends
\* with an assistant turn.
C31_BusyIffLastTurnIsUser ==
    /\ loading = (Len(chatHistory) > 0 /\ LastTurn(chatHistory).role = "user")
    /\ loading => /\ Len(pending) = 1
                  /\ Len(pending[1].messages) = Len(chatHistory)
    /\ ~loading => (chatHistory = <<>>
                    \/ LastTurn(chatHistory).role = "assistant")

\* a follow-up to a passing evaluation is out and the user types the next
C31_Witness ==
    /\ loading
    /\ Len(chatHistory) = 3
    /\ chatHistory[2].content = ResultPass
    /\ chatHistory[3].role = "user"
    /\ chatInput = "Fix the contrast"
    /\ lastCall = "-"

-----------------------------------------------------------------------------
(* C32 *)

\* C32: in every state the current analysis is null or is the content of
\* an assistant turn of the current history.
C32_AnalysisIsOfCurrentHistory ==
    \/ latestAnalysis = JNull
    \/ \E i \in 1..Len(chatHistory) :
          /\ chatHistory[i].role = "assistant"
          /\ chatHistory[i].content = latestAnalysis

\* the analysis tab still shows the evaluation's result after a follow-up
\* that failed
C32_Witness ==
    /\ Len(chatHistory) = 4
    /\ latestAnalysis = ResultFixA
    /\ chatHistory[2].content = ResultFixA
    /\ IsFailureTurn(chatHistory[4])
    /\ activeTab = "analysis"
    /\ ~loading

-----------------------------------------------------------------------------
(* C33 *)

\* C33: the transcript of every request dispatched is non-empty and ends
\* with the user turn just submitted (the chat text, or the evaluation
\* message holding the editor document); the transcript of a chat is the
\* whole prior history, turn for turn, followed by the new user turn,
\* also when the prior history is empty.
C33_TranscriptEndsWithSubmission ==
    [][ lastCall' \in {"handleEvaluate:sent", "handleChatSend:sent"}
        => LET msgs == pending'[Len(pending')].messages
           IN  /\ Len(msgs) >= 1
               /\ msgs[Len(msgs)].role = "user"
               /\ lastCall' = "handleEvaluate:sent"
                    => msgs[Len(msgs)].content
                          = "Evaluate this HTML:\n" \o htmlInput
               /\ lastCall' = "handleChatSend:sent"
                    => /\ msgs[Len(msgs)].content = chatInput
                       /\ Len(msgs) = Len(chatHistory) + 1
                       /\ SubSeq(msgs, 1, Len(chatHistory))
                             = apiMessages(chatHistory)
                       /\ chatHistory'
                             = Append(chatHistory, Turn("user", JStr(chatInput)))
      ]_vars

\* a chat was submitted on the empty history of the initial page
C33_Witness ==
    /\ lastCall = "handleChatSend:sent"
    /\ chatHistory = <<Turn("user", JStr("Fix the contrast"))>>
    /\ Len(pending) = 1
    /\ pending[1].messages
          = <<[role |-> "user", content |-> "Fix the contrast"]>>
    /\ htmlInput = DefaultHtml

-----------------------------------------------------------------------------
(* C34 *)

\* rule 2 applies: no turn carries a fixed_html, some turn a fenced
\* rationale; RuleTwoRationale is that of the most recent such turn
RuleTwoApplies ==
    /\ FixedTurns(chatHistory) = {}
    /\ \E i \in 1..Len(chatHistory) : HasFencedRationale(chatHistory, i)

RuleTwoRationale ==
    LET R == {i \in 1..Len(chatHistory) : HasFencedRationale(chatHistory, i)}
    IN  Get(chatHistory[Latest(R)].content, "rationale").str

\* C34: when rule 2 applies, the preview document is the text between
\* the first opening fence tagged html and the first closing fence after
\* it; of a rationale with a css block, an untagged block and two html
\* blocks it is the text of the first html block, <p>hi</p> on a line of
\* its own, and nothing of the other three.
C34_FirstHtmlBlockOnly ==
    (FixedTurns(chatHistory) = {})
        => LET R == {i \in 1..Len(chatHistory) :
                        HasFencedRationale(chatHistory, i)}
           IN  R # {}
                 => LET r == Get(chatHistory[Latest(R)].content,
                                 "rationale").str
                        p == getPreviewCode
                    IN  /\ p = FirstBlockInterior(r)
                        /\ r = BlocksRationale => p = "\n<p>hi</p>\n"

\* the answer with the four blocks is the one previewed
C34_Witness ==
    /\ RuleTwoApplies
    /\ RuleTwoRationale = BlocksRationale
    /\ activeTab = "preview"
    /\ getPreviewCode = "\n<p>hi</p>\n"
    /\ ~Includes(getPreviewCode, "<i>2</i>")

-----------------------------------------------------------------------------
(* C35 *)

-----------------------------------------------------------------------------
(* C36 *)

\* C36: the Apply Fix of the preview tab, offered whenever the preview
\* document differs from the editor document, makes the editor document
\* equal to the preview document and leaves the preview document as it
\* was, so that the two agree afterwards and a second apply has nothing
\* to change.
C36_ApplyConverges ==
    [][ (lastCall' = "handleApplyFix" /\ activeTab = "preview")
        => /\ htmlInput' = getPreviewCode
           /\ getPreviewCode' = getPreviewCode
           /\ getPreviewCode' = htmlInput'
      ]_vars

====
